---- MODULE Spec2Model ----
(***************************************************************************)
(* Verification model of MonitoRSS's FeedConnectionsService                *)
(* (services/backend-api/src/features/feed-connections/                    *)
(* feed-connections.service.ts).                                            *)
(*                                                                         *)
(* Every request is an async handler.  A handler suspends at each `await`  *)
(* (remote Discord lookup, authorization call, Mongo findOneAndUpdate), so *)
(* one action models the code between two awaits, and requests of          *)
(* different callers interleave at those points.  findOneAndUpdate is one  *)
(* atomic step of the store.                                               *)
(***************************************************************************)
EXTENDS Naturals, Sequences, FiniteSets, TLC

(* ---------------------------------------------------------------------- *)
(* Bounds and small input sets                                             *)
(* ---------------------------------------------------------------------- *)

\* number of calls accepted in one behaviour
MaxCalls == 3

Procs == {"p1", "p2"}

Guilds == {"g1", "g2"}
\* subscriptions present in the store, and one id that matches none
StoredFeedIds == {"f1", "f2"}
MissingFeedId == "f0"
FeedIdInputs == StoredFeedIds \cup {MissingFeedId}
FeedGuild == [f \in StoredFeedIds |-> IF f = "f1" THEN "g1" ELSE "g2"]

ChannelIds == {"c1", "c2"}
\* the guild Discord reports for a channel
ChannelGuild == [c \in ChannelIds |-> IF c = "c1" THEN "g1" ELSE "g2"]

Names == {"a", "b"}
UNSET == "<unset>"
NULL == "<null>"

\* HttpStatus codes of @nestjs/common used by the service
NOT_FOUND == 404
FORBIDDEN == 403

(* ---------------------------------------------------------------------- *)
(* Errors                                                                  *)
(* ---------------------------------------------------------------------- *)

Err(class, code) == [class |-> class, statusCode |-> code]
NoErr == Err("", 0)
DiscordAPIError(code) == Err("DiscordAPIError", code)
DiscordChannelNotOwnedException == Err("DiscordChannelNotOwnedException", 0)
MissingDiscordChannelException == Err("MissingDiscordChannelException", 0)
DiscordChannelPermissionsException == Err("DiscordChannelPermissionsException", 0)
DiscordWebhookNonexistentException == Err("DiscordWebhookNonexistentException", 0)
DiscordWebhookInvalidTypeException == Err("DiscordWebhookInvalidTypeException", 0)
DiscordWebhookNotOwnedException == Err("DiscordWebhookNotOwnedException", 0)
DiscordWebhookMissingUserPermException == Err("DiscordWebhookMissingUserPermException", 0)
\* `new Error("Connection was not successfuly created/updated. ...")`
NotPersistedError == Err("Error:Connection was not successfuly persisted", 0)

\* what feedsService.canUseChannel can throw: a DiscordAPIError with a status
\* code, or an error of another class (which may carry a statusCode too)
RemoteErrors ==
    { DiscordAPIError(NOT_FOUND), DiscordAPIError(FORBIDDEN),
      DiscordAPIError(500),
      Err("Error:network", 0), Err("HttpException", NOT_FOUND) }

\* outcome of the remote lookup feedsService.canUseChannel({channelId, ...})
LookupOk(c) == [ok |-> TRUE, guild_id |-> ChannelGuild[c], err |-> NoErr]
LookupFail(e) == [ok |-> FALSE, guild_id |-> "", err |-> e]
LookupOutcomes(c) == {LookupOk(c)} \cup {LookupFail(e) : e \in RemoteErrors}
NoLookup == [ok |-> FALSE, guild_id |-> "", err |-> NoErr]

\* mutation: the status code alone decides, whatever the class of the error
assertWithoutInstanceof(lookup, guildId) ==
    LET thrown == IF lookup.ok
                  THEN IF lookup.guild_id # guildId
                       THEN DiscordChannelNotOwnedException
                       ELSE NoErr
                  ELSE lookup.err
    IN  IF thrown = NoErr THEN NoErr
        ELSE IF thrown.statusCode = NOT_FOUND
             THEN MissingDiscordChannelException
        ELSE IF thrown.statusCode = FORBIDDEN
             THEN DiscordChannelPermissionsException
        ELSE thrown

\* mutation: the comparison of channel.guild_id with guildId is left out
assertWithoutOwnership(lookup, guildId) ==
    LET thrown == IF lookup.ok THEN NoErr ELSE lookup.err
    IN  IF thrown = NoErr THEN NoErr
        ELSE IF thrown.class = "DiscordAPIError" /\ thrown.statusCode = NOT_FOUND
             THEN MissingDiscordChannelException
        ELSE IF thrown.class = "DiscordAPIError" /\ thrown.statusCode = FORBIDDEN
             THEN DiscordChannelPermissionsException
        ELSE thrown

\* assertDiscordChannelCanBeUsed: the error it throws, NoErr when it returns
assertDiscordChannelCanBeUsed(lookup, guildId) ==
    LET thrown == IF lookup.ok
                  THEN IF lookup.guild_id # guildId
                       THEN DiscordChannelNotOwnedException
                       ELSE NoErr
                  ELSE lookup.err
    IN  IF thrown = NoErr THEN NoErr
        ELSE IF thrown.class = "DiscordAPIError" /\ thrown.statusCode = NOT_FOUND
             THEN MissingDiscordChannelException
        ELSE IF thrown.class = "DiscordAPIError" /\ thrown.statusCode = FORBIDDEN
             THEN DiscordChannelPermissionsException
        ELSE thrown

(* ---------------------------------------------------------------------- *)
(* Remote webhooks                                                         *)
(* ---------------------------------------------------------------------- *)

WebhookIds == {"w0", "w1", "w2", "w3"}
\* discordWebhooksService.getWebhook(id): <<>> is null (no such webhook),
\* otherwise the one webhook object; botUsable is what canBeUsedByBot reads
getWebhook(id) ==
    CASE id = "w1" -> << [guild_id |-> "g1", botUsable |-> TRUE,  token |-> "tok1"] >>
      [] id = "w2" -> << [guild_id |-> "g2", botUsable |-> TRUE,  token |-> "tok2"] >>
      [] id = "w3" -> << [guild_id |-> "g1", botUsable |-> FALSE, token |-> "tok3"] >>
      [] OTHER     -> << >>

canBeUsedByBot(webhook) == webhook.botUsable

(* ---------------------------------------------------------------------- *)
(* Documents of the store                                                  *)
(* ---------------------------------------------------------------------- *)

\* mutation: the arguments are mixed up, the channel id is stored as the name
NewChannelConnectionSwapped(connectionId, name, channelId) ==
    [ id      |-> connectionId,
      name    |-> channelId,
      filters |-> UNSET,
      details |-> [ type    |-> "DISCORD_CHANNEL",
                    channel |-> [id |-> name],
                    embeds  |-> << >>,
                    content |-> UNSET ] ]

\* the element createDiscordChannelConnection pushes
NewChannelConnection(connectionId, name, channelId) ==
    [ id      |-> connectionId,
      name    |-> name,
      filters |-> UNSET,
      details |-> [ type    |-> "DISCORD_CHANNEL",
                    channel |-> [id |-> channelId],
                    embeds  |-> << >>,
                    content |-> UNSET ] ]

\* the element createDiscordWebhookConnection pushes
NewWebhookConnection(connectionId, name, wh, fetched) ==
    [ id      |-> connectionId,
      name    |-> name,
      details |-> [ embeds  |-> << >>,
                    webhook |-> [ iconUrl |-> wh.iconUrl,
                                  id      |-> wh.id,
                                  name    |-> wh.name,
                                  token   |-> fetched.token ] ] ]

EmptyFeed(f) ==
    [ guild |-> FeedGuild[f],
      connections |-> [discordChannels |-> << >>, discordWebhooks |-> << >>] ]

\* connection.id.equals(connectionId) over a list: the found elements
FindById(list, connectionId) ==
    SelectSeq(list, LAMBDA c : c.id = connectionId)

Ids(list) == {list[i].id : i \in 1..Len(list)}

(* ---------------------------------------------------------------------- *)
(* updateDiscordChannelConnection: building the $set document              *)
(* ---------------------------------------------------------------------- *)

\* JavaScript truthiness of a patch value
Truthy(v) == v \notin {"", NULL}

EmptyObj == << >>
Has(obj, key) == key \in DOMAIN obj

\* updates.details?.channel
PatchesChannel(updates) ==
    Has(updates, "details") /\ Has(updates.details, "channel")

\* Object.entries(updates.details || {}).reduce(...): one dotted path
\* connections.discordChannels.$.details.<key> per key of the details patch
setRecordDetails(updates) ==
    LET d == IF Has(updates, "details") THEN updates.details ELSE EmptyObj
    IN  [path \in {<<"details", k>> : k \in DOMAIN d} |-> d[path[2]]]

\* mutation: filters is written whenever the patch has the key, null included
setFiltersIfPresent(updates) ==
    IF Has(updates, "filters")
    THEN <<"filters">> :> updates.filters
    ELSE EmptyObj

\* ...(updates.filters && {[`connections.discordChannels.$.filters`]: ...})
setFilters(updates) ==
    IF Has(updates, "filters") /\ Truthy(updates.filters)
    THEN <<"filters">> :> updates.filters
    ELSE EmptyObj

\* mutation: the name of the patch is written whether or not it is present
setNameAlways(updates) ==
    <<"name">> :> (IF Has(updates, "name") THEN updates.name ELSE "")

\* ...(updates.name && {[`connections.discordChannels.$.name`]: ...})
setName(updates) ==
    IF Has(updates, "name") /\ Truthy(updates.name)
    THEN <<"name">> :> updates.name
    ELSE EmptyObj

\* the $set document: later spreads win over earlier ones
updateQuery(updates) ==
    setName(updates) @@ setFilters(updates) @@ setRecordDetails(updates)

\* mutation: the element is replaced as a whole, the fields the $set lacks
\* fall back to what a newly created connection holds
ApplySetWholeElement(conn, set) ==
    LET at(path, fresh) == IF path \in DOMAIN set THEN set[path] ELSE fresh
    IN  [ id      |-> conn.id,
          name    |-> at(<<"name">>, conn.name),
          filters |-> at(<<"filters">>, UNSET),
          details |-> [ type    |-> at(<<"details", "type">>, "DISCORD_CHANNEL"),
                        channel |-> at(<<"details", "channel">>, conn.details.channel),
                        embeds  |-> at(<<"details", "embeds">>, << >>),
                        content |-> at(<<"details", "content">>, UNSET) ] ]

\* $set applied to one element of connections.discordChannels
ApplySet(conn, set) ==
    LET at(path, old) == IF path \in DOMAIN set THEN set[path] ELSE old
    IN  [ id      |-> conn.id,
          name    |-> at(<<"name">>, conn.name),
          filters |-> at(<<"filters">>, conn.filters),
          details |-> [ type    |-> at(<<"details", "type">>, conn.details.type),
                        channel |-> at(<<"details", "channel">>, conn.details.channel),
                        embeds  |-> at(<<"details", "embeds">>, conn.details.embeds),
                        content |-> at(<<"details", "content">>, conn.details.content) ] ]

\* mutation: $ denotes the last element of the list, matching or not
PositionalLast(list, connectionId) == Len(list)

\* index of the element the positional operator $ denotes: the first
\* element of the list that matches "connections.discordChannels.id"
Positional(list, connectionId) ==
    CHOOSE i \in 1..Len(list) :
        /\ list[i].id = connectionId
        /\ \A j \in 1..(i - 1) : list[j].id # connectionId

(* ---------------------------------------------------------------------- *)
(* The store's atomic findOneAndUpdate, as functions of the collection     *)
(* ---------------------------------------------------------------------- *)

\* findOneAndUpdate({_id: feedId}, {$push: {"connections.discordChannels": c}})
PushDiscordChannel(fs, feedId, c) ==
    IF feedId \in DOMAIN fs
    THEN [fs EXCEPT ![feedId].connections.discordChannels = Append(@, c)]
    ELSE fs

\* findOneAndUpdate({_id: feedId}, {$push: {"connections.discordWebhooks": c}})
PushDiscordWebhook(fs, feedId, c) ==
    IF feedId \in DOMAIN fs
    THEN [fs EXCEPT ![feedId].connections.discordWebhooks = Append(@, c)]
    ELSE fs

\* findQuery of updateDiscordChannelConnection
MatchesFindQuery(fs, feedId, connectionId) ==
    /\ feedId \in DOMAIN fs
    /\ connectionId \in Ids(fs[feedId].connections.discordChannels)

\* mutation: the patched element is pushed next to the matched one instead of
\* being set in place
SetDiscordChannelPushing(fs, feedId, connectionId, set) ==
    IF MatchesFindQuery(fs, feedId, connectionId)
    THEN LET list == fs[feedId].connections.discordChannels
             i == Positional(list, connectionId)
         IN  [fs EXCEPT ![feedId].connections.discordChannels =
                            Append(@, ApplySet(list[i], set))]
    ELSE fs

\* mutation: the find query lacks `_id: feedId`, any subscription that holds
\* the connection id matches
SetDiscordChannelInAnyFeed(fs, feedId, connectionId, set) ==
    LET holders == {f \in DOMAIN fs :
                      connectionId \in Ids(fs[f].connections.discordChannels)}
    IN  IF holders # {}
        THEN LET f == CHOOSE h \in holders : TRUE
                 list == fs[f].connections.discordChannels
                 i == Positional(list, connectionId)
             IN  [fs EXCEPT ![f].connections.discordChannels[i] = ApplySet(@, set)]
        ELSE fs

\* findOneAndUpdate(findQuery, {$set: set})
SetDiscordChannel(fs, feedId, connectionId, set) ==
    IF MatchesFindQuery(fs, feedId, connectionId)
    THEN LET list == fs[feedId].connections.discordChannels
             i == Positional(list, connectionId)
         IN  [fs EXCEPT ![feedId].connections.discordChannels[i] =
                            ApplySet(@, set)]
    ELSE fs

\* mutation: the generator hands out the same id again
StaleObjectId(n) == n

\* `new Types.ObjectId()`: every call yields an id never yielded before;
\* the generator is modelled as a counter, n being the id just handed out
NextObjectId(n) == n + 1

(* ---------------------------------------------------------------------- *)
(* DeliveryRecordService: records and the count query                      *)
(* ---------------------------------------------------------------------- *)

\* bounds: delivery records stored, seconds the clock of the delivery
\* service runs
MaxStores == 3
MaxClock == 2

DeliveryFeedIds == {"f1", "f2"}

\* const { Failed, Rejected, Sent } = ArticleDeliveryStatus
Sent == "sent"
Failed == "failed"
Rejected == "rejected"
\* a status of ArticleDeliveryStatus other than the three: the else branch
OtherStatus == "filtered-out"

\* the article states handed to store(), a variant per status: only the
\* Failed and Rejected variants have errorCode and internalMessage
ArticleStates ==
    { [status |-> Sent],
      [status |-> Failed, errorCode |-> "E1", internalMessage |-> "M1"],
      [status |-> Rejected, errorCode |-> "E2", internalMessage |-> "M2"],
      [status |-> OtherStatus] }

\* the window lengths asked for, in seconds
SecondsInPast == 0..MaxClock

\* created_at of a new DeliveryRecord: the entity sets it to the time the
\* record is constructed
DefaultCreatedAt(t) == t

\* mutation: a record of any status is given error fields, a placeholder
\* where the article state has none
NewDeliveryRecordWithErrorFields(data, t) ==
    [ feed_id          |-> data.feed_id,
      status           |-> data.status,
      error_code       |-> IF Has(data, "error_code")
                           THEN data.error_code ELSE "unknown",
      internal_message |-> IF Has(data, "internal_message")
                           THEN data.internal_message ELSE "unknown",
      created_at       |-> DefaultCreatedAt(t) ]

\* new DeliveryRecord(data) at time t; a field data lacks stays unset
NewDeliveryRecord(data, t) ==
    [ feed_id          |-> data.feed_id,
      status           |-> data.status,
      error_code       |-> IF Has(data, "error_code")
                           THEN data.error_code ELSE UNSET,
      internal_message |-> IF Has(data, "internal_message")
                           THEN data.internal_message ELSE UNSET,
      created_at       |-> DefaultCreatedAt(t) ]

\* the if / else if / else of store(): the record it constructs at time t
recordToStore(feedId, articleState, t) ==
    LET articleStatus == articleState.status
    IN  IF articleStatus = Sent
        THEN NewDeliveryRecord([feed_id |-> feedId, status |-> articleStatus], t)
        ELSE IF articleStatus = Failed \/ articleStatus = Rejected
        THEN NewDeliveryRecord(
                 [ feed_id          |-> feedId,
                   status           |-> articleStatus,
                   error_code       |-> articleState.errorCode,
                   internal_message |-> articleState.internalMessage ], t)
        ELSE NewDeliveryRecord([feed_id |-> feedId, status |-> articleStatus], t)

\* dayjs().subtract(secondsInPast, "second") at time t
WindowStart(t, secondsInPast) == t - secondsInPast

\* mutation: the status filter is missing from the query
countOfAnyStatus(recs, feedId, secondsInPast, t) ==
    Cardinality({ i \in 1..Len(recs) :
                    /\ recs[i].feed_id = feedId
                    /\ recs[i].created_at >= WindowStart(t, secondsInPast) })

\* recordRepo.count({feed_id, status: {$in: [Sent, Rejected]},
\*                   created_at: {$gte: ...}}) evaluated at time t
countDeliveriesInPastTimeframe(recs, feedId, secondsInPast, t) ==
    Cardinality({ i \in 1..Len(recs) :
                    /\ recs[i].feed_id = feedId
                    /\ recs[i].status \in {Sent, Rejected}
                    /\ recs[i].created_at >= WindowStart(t, secondsInPast) })

(* ---------------------------------------------------------------------- *)
(* FeedsService: feed documents, fail records, derived status              *)
(* ---------------------------------------------------------------------- *)

\* bound: hours the clock of the feeds service runs
MaxHours == 2

\* a fail record counts towards the failed status once it is this old
FAILED_CUTOFF_HOURS == 18

\* the hour at which the clock starts: late enough for a fail record of any
\* age below, at or above the cutoff to exist
StartHour == FAILED_CUTOFF_HOURS + FAILED_CUTOFF_HOURS

FeedDocIds == {"d1", "d2"}
MissingFeedDocId == "d0"
FeedDocIdInputs == FeedDocIds \cup {MissingFeedDocId}
FeedUrl == [d \in FeedDocIds |-> IF d = "d1" THEN "u1" ELSE "u2"]
Urls == {"u1", "u2"}
FailReasons == {"r1", "r2"}
UNDEFINED == "<undefined>"

FeedStatusOk == "ok"
FeedStatusFailed == "failed"

\* the optional webhook object of a feed document: none, or the one object
NoWebhook == << >>
Webhook(id) == <<[id |-> id]>>

\* the feeds the collection holds: one with a webhook, one without
InitialFeedDocs ==
    [d \in FeedDocIds |->
        [ url     |-> FeedUrl[d],
          text    |-> "old-text",
          webhook |-> IF d = "d1" THEN Webhook("old-webhook-id") ELSE NoWebhook ]]

\* the ages, in hours, of the fail records that get inserted
AgesAtInsert ==
    {0, 2, FAILED_CUTOFF_HOURS - 1, FAILED_CUTOFF_HOURS, FAILED_CUTOFF_HOURS + 1}

\* the patches handed to updateOne: text absent, undefined or a string;
\* webhook absent, with an empty id or with an id
UpdateFeedInputs ==
    { t @@ w :
        t \in {EmptyObj, "text" :> UNDEFINED, "text" :> "my-new-text"},
        w \in {EmptyObj, "webhook" :> [id |-> ""],
               "webhook" :> [id |-> "my-new-webhook-id"]} }

\* mutation: a fail record counts while it is younger than the cutoff
PossibleStatusesWhileYoung(failRecs, url, t) ==
    IF url \notin DOMAIN failRecs THEN {FeedStatusOk}
    ELSE IF t - failRecs[url].failedAt < FAILED_CUTOFF_HOURS
         THEN {FeedStatusFailed}
         ELSE {FeedStatusOk}

\* the status findFeeds derives for a feed of the given url at hour t: ok
\* without a fail record and with one from within the past 18 hours, failed
\* with an older one.  What a record of exactly the cutoff age yields is
\* not fixed by the tests: either.
PossibleStatuses(failRecs, url, t) ==
    IF url \notin DOMAIN failRecs THEN {FeedStatusOk}
    ELSE LET age == t - failRecs[url].failedAt
         IN  IF age < FAILED_CUTOFF_HOURS THEN {FeedStatusOk}
             ELSE IF age > FAILED_CUTOFF_HOURS THEN {FeedStatusFailed}
             ELSE {FeedStatusOk, FeedStatusFailed}

\* mutation: the reason of the fail record is not joined in
DetailedFeedWithoutReason(id, doc, failRecs, status) ==
    [ id         |-> id,
      url        |-> doc.url,
      text       |-> doc.text,
      webhook    |-> doc.webhook,
      status     |-> status,
      failReason |-> UNSET ]

\* the feed findFeeds returns: the document with its derived status and,
\* when failed, the reason of the fail record (what failReason holds for a
\* feed that is not failed is not fixed by the tests: it is left unset)
DetailedFeed(id, doc, failRecs, status) ==
    [ id         |-> id,
      url        |-> doc.url,
      text       |-> doc.text,
      webhook    |-> doc.webhook,
      status     |-> status,
      failReason |-> IF status = FeedStatusFailed /\ doc.url \in DOMAIN failRecs
                     THEN failRecs[doc.url].reason ELSE UNSET ]

\* mutation: refresh leaves the fail record where it is
KeepFailRecord(failRecs, url) == failRecs

\* the fail record of the url is deleted
DeleteFailRecord(failRecs, url) ==
    [u \in DOMAIN failRecs \ {url} |-> failRecs[u]]

\* mutation: the webhook of the patch is written as given, an empty id too
ApplyUpdateFeedInputVerbatim(doc, input) ==
    [ url     |-> doc.url,
      text    |-> IF Has(input, "text") /\ input.text # UNDEFINED
                  THEN input.text ELSE doc.text,
      webhook |-> IF Has(input, "webhook")
                  THEN Webhook(input.webhook.id) ELSE doc.webhook ]

\* what updateOne writes to the document: text when defined; the webhook
\* replaced by one of the given id, removed when the id is empty, left alone
\* when the patch has no webhook
ApplyUpdateFeedInput(doc, input) ==
    [ url     |-> doc.url,
      text    |-> IF Has(input, "text") /\ input.text # UNDEFINED
                  THEN input.text ELSE doc.text,
      webhook |-> IF ~Has(input, "webhook") THEN doc.webhook
                  ELSE IF input.webhook.id = "" THEN NoWebhook
                  ELSE Webhook(input.webhook.id) ]

(* ---------------------------------------------------------------------- *)
(* State                                                                   *)
(* ---------------------------------------------------------------------- *)

VARIABLES
    feeds,      \* the Feed collection: feed id -> document
    calls,      \* number of calls accepted so far
    nextId,     \* the ObjectId generator: the next id `new Types.ObjectId()` yields
    pc,         \* per request slot: the await the handler is suspended at
    req,        \* per request slot: the arguments of the call in progress / last made
    newId,      \* per request slot: the local const connectionId of a create
    lookup,     \* per request slot: what feedsService.canUseChannel produced
    manages,    \* per request slot: what discordAuthService.userManagesGuild answered
    log,        \* per request slot: the calls and checks the handler has made, in order
    res,        \* per request slot: how the last call ended
    ret,        \* per request slot: the connection the last call returned
    records,    \* the DeliveryRecord table, in insertion order
    now,        \* the clock of the delivery service, in seconds
    dcall,      \* the DeliveryRecordService call just made and what it returned
    feedDocs,   \* the feed documents FeedsService reads and updates: id -> document
    failRecords,\* the FailRecord collection: url -> record
    clock,      \* the clock of the feeds service, in hours
    fcall,      \* the FeedsService call just made and what it returned
    ureq        \* the FeedsController.updateFeed request in progress / last made

connectionVars ==
    <<feeds, calls, nextId, pc, req, newId, lookup, manages, log, res, ret>>
deliveryVars == <<records, now, dcall>>
feedsVars == <<feedDocs, failRecords, clock, fcall>>
controllerVars == <<ureq>>

vars == <<connectionVars, deliveryVars, feedsVars, controllerVars>>

NoUpdateFeed ==
    [ pc |-> "idle", feedId |-> "", text |-> "", webhookId |-> "",
      log |-> << >>, before |-> << >>, res |-> "none", message |-> "" ]

NoDeliveryCall ==
    [op |-> "none", feedId |-> "", status |-> "", secondsInPast |-> 0, count |-> 0]

NoFeedsCall ==
    [ op |-> "none", id |-> "", input |-> EmptyObj, threw |-> FALSE,
      deleted |-> 0, out |-> << >> ]

NoReq ==
    [ op |-> "none", feedId |-> "", connectionId |-> 0, name |-> "",
      channelId |-> "", guildId |-> "", updates |-> EmptyObj, webhookId |-> "",
      seq |-> 0 ]

NoRes == [status |-> "none", err |-> NoErr]
Pending == [status |-> "pending", err |-> NoErr]
Ok == [status |-> "ok", err |-> NoErr]
Threw(e) == [status |-> "error", err |-> e]

Init ==
    /\ feeds = [f \in StoredFeedIds |-> EmptyFeed(f)]
    /\ calls = 0
    /\ nextId = 1
    /\ pc = [p \in Procs |-> "idle"]
    /\ req = [p \in Procs |-> NoReq]
    /\ newId = [p \in Procs |-> 0]
    /\ lookup = [p \in Procs |-> NoLookup]
    /\ manages = [p \in Procs |-> "unasked"]
    /\ log = [p \in Procs |-> << >>]
    /\ res = [p \in Procs |-> NoRes]
    /\ ret = [p \in Procs |-> << >>]
    /\ records = << >>
    /\ now = 0
    /\ dcall = NoDeliveryCall
    /\ feedDocs = InitialFeedDocs
    /\ failRecords = << >>
    /\ clock = StartHour
    /\ fcall = NoFeedsCall
    /\ ureq = NoUpdateFeed

\* a handler is entered: its arguments are bound, its first await is issued;
\* seq numbers the calls in the order in which they were made
Enter(p, r, at, firstCall) ==
    /\ calls' = calls + 1
    /\ pc' = [pc EXCEPT ![p] = at]
    /\ req' = [req EXCEPT ![p] = [r EXCEPT !.seq = calls + 1]]
    /\ newId' = [newId EXCEPT ![p] = 0]
    /\ lookup' = [lookup EXCEPT ![p] = NoLookup]
    /\ manages' = [manages EXCEPT ![p] = "unasked"]
    /\ log' = [log EXCEPT ![p] = <<firstCall>>]
    /\ res' = [res EXCEPT ![p] = Pending]
    /\ ret' = [ret EXCEPT ![p] = << >>]
    /\ UNCHANGED <<feeds, nextId>>

\* the caller has received the outcome; the slot is free for the next call
Respond(p) ==
    /\ pc[p] = "done"
    /\ pc' = [pc EXCEPT ![p] = "idle"]
    /\ req' = [req EXCEPT ![p] = NoReq]
    /\ newId' = [newId EXCEPT ![p] = 0]
    /\ lookup' = [lookup EXCEPT ![p] = NoLookup]
    /\ manages' = [manages EXCEPT ![p] = "unasked"]
    /\ log' = [log EXCEPT ![p] = << >>]
    /\ res' = [res EXCEPT ![p] = NoRes]
    /\ ret' = [ret EXCEPT ![p] = << >>]
    /\ UNCHANGED <<feeds, calls, nextId>>

\* the handler throws e
Throw(p, e) ==
    /\ pc' = [pc EXCEPT ![p] = "done"]
    /\ res' = [res EXCEPT ![p] = Threw(e)]
    /\ ret' = [ret EXCEPT ![p] = << >>]

\* the handler returns connection c
Return(p, c) ==
    /\ pc' = [pc EXCEPT ![p] = "done"]
    /\ res' = [res EXCEPT ![p] = Ok]
    /\ ret' = [ret EXCEPT ![p] = <<c>>]

(* ---------------------------------------------------------------------- *)
(* createDiscordChannelConnection                                          *)
(* ---------------------------------------------------------------------- *)

createDiscordChannelConnection(p, feedId, name, channelId, guildId) ==
    /\ Enter(p, [NoReq EXCEPT !.op = "createDiscordChannelConnection",
                              !.feedId = feedId, !.name = name,
                              !.channelId = channelId, !.guildId = guildId],
             "canUseChannel", "canUseChannel")

\* the channel id assertDiscordChannelCanBeUsed is called with
VerifiedChannelId(r) ==
    IF r.op = "updateDiscordChannelConnection"
    THEN r.updates.details.channel.id
    ELSE r.channelId

\* `await this.assertDiscordChannelCanBeUsed(...)` completes, in create and
\* in update; on success the handler goes on to issue its findOneAndUpdate
canUseChannelReturns(p) ==
    /\ pc[p] = "canUseChannel"
    /\ \E out \in LookupOutcomes(VerifiedChannelId(req[p])) :
        LET e == assertDiscordChannelCanBeUsed(out, req[p].guildId) IN
        /\ lookup' = [lookup EXCEPT ![p] = out]
        /\ IF e # NoErr
           THEN /\ Throw(p, e)
                /\ UNCHANGED <<nextId, newId, log>>
           ELSE /\ log' = [log EXCEPT ![p] = Append(@, "findOneAndUpdate")]
                /\ UNCHANGED <<res, ret>>
                /\ IF req[p].op = "createDiscordChannelConnection"
                   THEN /\ newId' = [newId EXCEPT ![p] = nextId]
                        /\ nextId' = NextObjectId(nextId)
                        /\ pc' = [pc EXCEPT ![p] = "push"]
                   ELSE /\ pc' = [pc EXCEPT ![p] = "set"]
                        /\ UNCHANGED <<nextId, newId>>
    /\ UNCHANGED <<calls, feeds, req, manages>>

\* updated?.connections.<list>.find(c => c.id.equals(connectionId)), where
\* updated is the document findOneAndUpdate returns with {new: true}
FindInUpdated(fs, feedId, listName, connectionId) ==
    IF feedId \in DOMAIN fs
    THEN FindById(fs[feedId].connections[listName], connectionId)
    ELSE << >>

\* the $push findOneAndUpdate executes and the handler runs to its end
pushDiscordChannelReturns(p) ==
    /\ pc[p] = "push"
    /\ req[p].op = "createDiscordChannelConnection"
    /\ LET r == req[p]
           c == NewChannelConnection(newId[p], r.name, r.channelId)
           updatedFeeds == PushDiscordChannel(feeds, r.feedId, c)
           createdConnection ==
               FindInUpdated(updatedFeeds, r.feedId, "discordChannels", newId[p])
       IN  /\ feeds' = updatedFeeds
           /\ IF createdConnection = << >>
              THEN Throw(p, NotPersistedError)
              ELSE Return(p, createdConnection[1])
    /\ UNCHANGED <<calls, nextId, req, newId, lookup, manages, log>>

(* ---------------------------------------------------------------------- *)
(* updateDiscordChannelConnection                                          *)
(* ---------------------------------------------------------------------- *)

\* mutation: the patch goes to the store without the channel being verified
updateWithoutVerification(p, feedId, connectionId, updates, guildId) ==
    Enter(p, [NoReq EXCEPT !.op = "updateDiscordChannelConnection",
                           !.feedId = feedId, !.connectionId = connectionId,
                           !.updates = updates, !.guildId = guildId],
          "set", "findOneAndUpdate")

updateDiscordChannelConnection(p, feedId, connectionId, updates, guildId) ==
    LET r == [NoReq EXCEPT !.op = "updateDiscordChannelConnection",
                           !.feedId = feedId, !.connectionId = connectionId,
                           !.updates = updates, !.guildId = guildId]
    IN  IF PatchesChannel(updates)
        THEN Enter(p, r, "canUseChannel", "canUseChannel")
        ELSE Enter(p, r, "set", "findOneAndUpdate")

\* the $set findOneAndUpdate executes and the handler runs to its end
setDiscordChannelReturns(p) ==
    /\ pc[p] = "set"
    /\ LET r == req[p]
           updatedFeeds ==
               SetDiscordChannel(feeds, r.feedId, r.connectionId,
                                 updateQuery(r.updates))
           updatedConnection ==
               FindInUpdated(updatedFeeds, r.feedId, "discordChannels",
                             r.connectionId)
       IN  /\ feeds' = updatedFeeds
           /\ IF updatedConnection = << >>
              THEN Throw(p, NotPersistedError)
              ELSE Return(p, updatedConnection[1])
    /\ UNCHANGED <<calls, nextId, req, newId, lookup, manages, log>>

(* ---------------------------------------------------------------------- *)
(* createDiscordWebhookConnection                                          *)
(* ---------------------------------------------------------------------- *)

createDiscordWebhookConnection(p, feedId, guildId, name, webhookId) ==
    /\ Enter(p, [NoReq EXCEPT !.op = "createDiscordWebhookConnection",
                              !.feedId = feedId, !.guildId = guildId,
                              !.name = name, !.webhookId = webhookId],
             "getWebhook", "getWebhook")

\* mutation: ownership is checked before the webhook's type
WebhookChecksOwnershipFirst(webhook, guildId) ==
    IF webhook = << >>
    THEN [err |-> DiscordWebhookNonexistentException, done |-> << >>]
    ELSE IF webhook[1].guild_id # guildId
    THEN [err |-> DiscordWebhookNotOwnedException, done |-> <<"guild_id">>]
    ELSE IF ~canBeUsedByBot(webhook[1])
    THEN [err |-> DiscordWebhookInvalidTypeException,
          done |-> <<"guild_id", "canBeUsedByBot">>]
    ELSE [err |-> NoErr,
          done |-> <<"guild_id", "canBeUsedByBot", "userManagesGuild">>]

\* the checks that follow `await getWebhook(id)`, up to the next await:
\* the error thrown (NoErr when all three pass) and the checks evaluated
WebhookChecks(webhook, guildId) ==
    IF webhook = << >>
    THEN [err |-> DiscordWebhookNonexistentException, done |-> << >>]
    ELSE IF ~canBeUsedByBot(webhook[1])
    THEN [err |-> DiscordWebhookInvalidTypeException,
          done |-> <<"canBeUsedByBot">>]
    ELSE IF webhook[1].guild_id # guildId
    THEN [err |-> DiscordWebhookNotOwnedException,
          done |-> <<"canBeUsedByBot", "guild_id">>]
    ELSE [err |-> NoErr,
          done |-> <<"canBeUsedByBot", "guild_id", "userManagesGuild">>]

getWebhookReturns(p) ==
    /\ pc[p] = "getWebhook"
    /\ LET chk == WebhookChecks(getWebhook(req[p].webhookId), req[p].guildId)
       IN  /\ log' = [log EXCEPT ![p] = @ \o chk.done]
           /\ IF chk.err # NoErr
              THEN Throw(p, chk.err)
              ELSE /\ pc' = [pc EXCEPT ![p] = "userManagesGuild"]
                   /\ UNCHANGED <<res, ret>>
    /\ UNCHANGED <<calls, feeds, nextId, req, newId, lookup, manages>>

\* mutation: the answer of userManagesGuild is not looked at
MayUseWebhookUnchecked(answer) == TRUE

\* the condition of `if (!(await ...userManagesGuild(accessToken, guildId)))`
MayUseWebhook(answer) == answer

\* `await this.discordAuthService.userManagesGuild(accessToken, guildId)`
userManagesGuildReturns(p) ==
    /\ pc[p] = "userManagesGuild"
    /\ \E answer \in BOOLEAN :
        /\ manages' = [manages EXCEPT ![p] = IF answer THEN "yes" ELSE "no"]
        /\ IF ~MayUseWebhook(answer)
           THEN /\ Throw(p, DiscordWebhookMissingUserPermException)
                /\ UNCHANGED <<nextId, newId, log>>
           ELSE /\ newId' = [newId EXCEPT ![p] = nextId]
                /\ nextId' = NextObjectId(nextId)
                /\ log' = [log EXCEPT ![p] = Append(@, "findOneAndUpdate")]
                /\ pc' = [pc EXCEPT ![p] = "push"]
                /\ UNCHANGED <<res, ret>>
    /\ UNCHANGED <<calls, feeds, req, lookup>>

\* the webhook argument of the call: {id, name, iconUrl}
WebhookArg(id) == [id |-> id, name |-> "hook", iconUrl |-> "icon"]

pushDiscordWebhookReturns(p) ==
    /\ pc[p] = "push"
    /\ req[p].op = "createDiscordWebhookConnection"
    /\ LET r == req[p]
           c == NewWebhookConnection(newId[p], r.name, WebhookArg(r.webhookId),
                                     getWebhook(r.webhookId)[1])
           updatedFeeds == PushDiscordWebhook(feeds, r.feedId, c)
           createdConnection ==
               FindInUpdated(updatedFeeds, r.feedId, "discordWebhooks", newId[p])
       IN  /\ feeds' = updatedFeeds
           /\ IF createdConnection = << >>
              THEN Throw(p, NotPersistedError)
              ELSE Return(p, createdConnection[1])
    /\ UNCHANGED <<calls, nextId, req, newId, lookup, manages, log>>

(* ---------------------------------------------------------------------- *)
(* Inputs                                                                  *)
(* ---------------------------------------------------------------------- *)

\* connection ids a caller may name: those generated so far, and one that
\* was never generated
ConnectionIdInputs == 1..nextId

\* a details patch: any subset of the keys, each with a value
DetailsOf(keys, channelId) ==
    [k \in keys |-> IF k = "channel" THEN [id |-> channelId] ELSE "x"]
DetailsPatches ==
    {DetailsOf(keys, c) : keys \in SUBSET {"channel", "content"}, c \in ChannelIds}

\* an updates object: any subset of filters, name, details; filters and
\* name may be given a falsy value
UpdatesOf(keys, f, n, d) ==
    [k \in keys |-> CASE k = "filters" -> f [] k = "name" -> n [] OTHER -> d]
AllUpdates ==
    {UpdatesOf(keys, f, n, d) :
        keys \in SUBSET {"filters", "name", "details"},
        f \in {NULL, "F"}, n \in {"", "b"}, d \in DetailsPatches}

(* ---------------------------------------------------------------------- *)
(* Specification: one caller issuing calls one after another               *)
(* ---------------------------------------------------------------------- *)

Caller == {"p1"}

\* a slot can take a call: it is free and the call budget is not used up
Free(p) == pc[p] = "idle" /\ calls < MaxCalls

\* a step of FeedConnectionsService leaves the state of the other services
\* as it is
OtherServicesIdle == UNCHANGED <<deliveryVars, feedsVars, controllerVars>>

CreateChannel ==
    \E p \in Caller :
        /\ Free(p)
        /\ OtherServicesIdle
        /\ \E f \in FeedIdInputs, n \in {"a"}, c \in ChannelIds, g \in Guilds :
              createDiscordChannelConnection(p, f, n, c, g)

UpdateChannel ==
    \E p \in Caller :
        /\ Free(p)
        /\ OtherServicesIdle
        /\ \E f \in FeedIdInputs, id \in ConnectionIdInputs,
               u \in AllUpdates, g \in Guilds :
              updateDiscordChannelConnection(p, f, id, u, g)

CreateWebhook ==
    \E p \in Caller :
        /\ Free(p)
        /\ OtherServicesIdle
        /\ \E f \in FeedIdInputs, g \in Guilds, n \in {"a"}, w \in WebhookIds :
              createDiscordWebhookConnection(p, f, g, n, w)

CanUseChannelReturns ==
    /\ \E p \in Procs : canUseChannelReturns(p)
    /\ OtherServicesIdle
PushDiscordChannelReturns ==
    /\ \E p \in Procs : pushDiscordChannelReturns(p)
    /\ OtherServicesIdle
SetDiscordChannelReturns ==
    /\ \E p \in Procs : setDiscordChannelReturns(p)
    /\ OtherServicesIdle
GetWebhookReturns ==
    /\ \E p \in Procs : getWebhookReturns(p)
    /\ OtherServicesIdle
UserManagesGuildReturns ==
    /\ \E p \in Procs : userManagesGuildReturns(p)
    /\ OtherServicesIdle
PushDiscordWebhookReturns ==
    /\ \E p \in Procs : pushDiscordWebhookReturns(p)
    /\ OtherServicesIdle
Responds ==
    /\ \E p \in Procs : Respond(p)
    /\ OtherServicesIdle

Next ==
    \/ CreateChannel
    \/ UpdateChannel
    \/ CreateWebhook
    \/ CanUseChannelReturns
    \/ PushDiscordChannelReturns
    \/ SetDiscordChannelReturns
    \/ GetWebhookReturns
    \/ UserManagesGuildReturns
    \/ PushDiscordWebhookReturns
    \/ Responds

Spec == Init /\ [][Next]_vars

(* ---------------------------------------------------------------------- *)
(* Specification: two callers whose requests interleave at the awaits,     *)
(* all against subscription f1 and guild g1                                *)
(* ---------------------------------------------------------------------- *)

ConcUpdates ==
    { "name" :> "b",
      "filters" :> "F",
      "details" :> ("content" :> "x"),
      "name" :> "" @@ "filters" :> NULL @@ "details" :> ("content" :> "x") }

ConcCreateChannel ==
    \E p \in Procs :
        /\ Free(p)
        /\ OtherServicesIdle
        /\ \E n \in Names : createDiscordChannelConnection(p, "f1", n, "c1", "g1")

ConcUpdateChannel ==
    \E p \in Procs :
        /\ Free(p)
        /\ OtherServicesIdle
        /\ \E id \in ConnectionIdInputs, u \in ConcUpdates :
              updateDiscordChannelConnection(p, "f1", id, u, "g1")

ConcCreateWebhook ==
    \E p \in Procs :
        /\ Free(p)
        /\ OtherServicesIdle
        /\ \E n \in Names : createDiscordWebhookConnection(p, "f1", "g1", n, "w1")

NextConc ==
    \/ ConcCreateChannel
    \/ ConcUpdateChannel
    \/ ConcCreateWebhook
    \/ CanUseChannelReturns
    \/ PushDiscordChannelReturns
    \/ SetDiscordChannelReturns
    \/ GetWebhookReturns
    \/ UserManagesGuildReturns
    \/ PushDiscordWebhookReturns
    \/ Responds

SpecConc == Init /\ [][NextConc]_vars

(* ---------------------------------------------------------------------- *)
(* Properties                                                              *)
(* ---------------------------------------------------------------------- *)

\* the step is one of request slot p
Acts(p) == pc'[p] # pc[p]

Range(seq) == {seq[i] : i \in 1..Len(seq)}

IsCreateChannel(r) == r.op = "createDiscordChannelConnection"
IsUpdateChannel(r) == r.op = "updateDiscordChannelConnection"
IsCreateWebhook(r) == r.op = "createDiscordWebhookConnection"

\* the remote lookup returned a channel of a group other than the requested
ChannelOfOtherGroup(p) == lookup[p].ok /\ lookup[p].guild_id # req[p].guildId

\* C1: a createDiscordChannelConnection call whose remote lookup returns a
\* channel owned by a group other than the requested guildId fails with
\* DiscordChannelNotOwnedException, and no step of the call writes the
\* store: entering the handler leaves the collection as it is, and so does
\* the step that receives the channel, which ends the call without a
\* findOneAndUpdate having been issued.
C1_NotOwnedCreateFailsUnpersisted ==
    [][\A p \in Procs :
        (Acts(p) /\ IsCreateChannel(req'[p]) /\ pc'[p] # "idle") =>
            /\ pc[p] = "idle" => feeds' = feeds
            /\ ChannelOfOtherGroup(p)' =>
                /\ pc'[p] = "done"
                /\ res'[p] = Threw(DiscordChannelNotOwnedException)
                /\ ret'[p] = << >>
                /\ "findOneAndUpdate" \notin Range(log'[p])
                /\ feeds' = feeds]_vars

C1_Witness ==
    \E p \in Procs :
        /\ pc[p] = "done"
        /\ IsCreateChannel(req[p])
        /\ ChannelOfOtherGroup(p)
        /\ res[p].err = DiscordChannelNotOwnedException

\* the checks of createDiscordWebhookConnection that the webhook of the
\* request fails, by the data alone: 1 existence, 2 type, 3 ownership
FailsExistence(r) == getWebhook(r.webhookId) = << >>
FailsType(r) == ~FailsExistence(r) /\ ~getWebhook(r.webhookId)[1].botUsable
FailsOwnership(r) ==
    ~FailsExistence(r) /\ getWebhook(r.webhookId)[1].guild_id # r.guildId

\* C2: in createDiscordWebhookConnection the checks run in the order
\* existence, type, ownership, user permission.  The first check that fails
\* decides the exception, and the calls and checks made stop there: after a
\* failure of one of the first three, userManagesGuild has not been called.
C2_WebhookCheckOrder ==
    \A p \in Procs :
        (IsCreateWebhook(req[p]) /\ pc[p] \notin {"getWebhook", "idle"}) =>
            LET r == req[p] IN
            /\ FailsExistence(r) =>
                /\ res[p] = Threw(DiscordWebhookNonexistentException)
                /\ log[p] = <<"getWebhook">>
            /\ FailsType(r) =>
                /\ res[p] = Threw(DiscordWebhookInvalidTypeException)
                /\ log[p] = <<"getWebhook", "canBeUsedByBot">>
            /\ (~FailsExistence(r) /\ ~FailsType(r) /\ FailsOwnership(r)) =>
                /\ res[p] = Threw(DiscordWebhookNotOwnedException)
                /\ log[p] = <<"getWebhook", "canBeUsedByBot", "guild_id">>
            /\ (FailsExistence(r) \/ FailsType(r) \/ FailsOwnership(r)) =>
                /\ pc[p] = "done"
                /\ manages[p] = "unasked"
                /\ "userManagesGuild" \notin Range(log[p])
            /\ (~FailsExistence(r) /\ ~FailsType(r) /\ ~FailsOwnership(r)) =>
                /\ SubSeq(log[p], 1, 4) =
                     <<"getWebhook", "canBeUsedByBot", "guild_id", "userManagesGuild">>
                /\ manages[p] = "no" =>
                    /\ res[p] = Threw(DiscordWebhookMissingUserPermException)
                    /\ Len(log[p]) = 4

\* a webhook of the wrong type that is also owned by another group: the
\* type check, which comes first, decides
C2_Witness ==
    \E p \in Procs :
        /\ pc[p] = "done"
        /\ IsCreateWebhook(req[p])
        /\ FailsType(req[p]) /\ FailsOwnership(req[p])
        /\ res[p].err = DiscordWebhookInvalidTypeException

WebhookCheckErrors ==
    { DiscordWebhookNonexistentException, DiscordWebhookInvalidTypeException,
      DiscordWebhookNotOwnedException, DiscordWebhookMissingUserPermException }

WebhookListsChange ==
    \E f \in StoredFeedIds :
        feeds'[f].connections.discordWebhooks # feeds[f].connections.discordWebhooks

\* C3: a createDiscordWebhookConnection call in which one of the four checks
\* fails never writes the store: the step that throws leaves the collection
\* unchanged and no findOneAndUpdate was issued; and a list of webhook
\* connections changes only in the $push step of a request whose webhook
\* exists, is usable by the bot, belongs to the requested guild, and whose
\* user was answered to manage the guild.
C3_FailedWebhookCreateWritesNothing ==
    [][/\ \A p \in Procs :
            (Acts(p) /\ IsCreateWebhook(req'[p]) /\ pc'[p] # "idle") =>
                /\ pc[p] = "idle" => feeds' = feeds
                /\ res'[p].err \in WebhookCheckErrors =>
                    /\ feeds' = feeds
                    /\ "findOneAndUpdate" \notin Range(log'[p])
       /\ WebhookListsChange =>
            \E p \in Procs :
                /\ Acts(p) /\ pc[p] = "push" /\ IsCreateWebhook(req[p])
                /\ ~FailsExistence(req[p]) /\ ~FailsType(req[p])
                /\ ~FailsOwnership(req[p])
                /\ manages[p] = "yes"]_vars

C3_Witness ==
    \E p \in Procs :
        /\ pc[p] = "done"
        /\ IsCreateWebhook(req[p])
        /\ res[p].err = DiscordWebhookMissingUserPermException
        /\ manages[p] = "no"

ChannelVerificationErrors ==
    { MissingDiscordChannelException, DiscordChannelPermissionsException,
      DiscordChannelNotOwnedException }

\* the channel connection with the given id in a subscription, as a list
\* of at most one element
StoredChannelConnection(fs, feedId, connectionId) ==
    FindInUpdated(fs, feedId, "discordChannels", connectionId)

\* C4: an updateDiscordChannelConnection call whose patch carries
\* details.channel first verifies that channel: the handler starts by
\* awaiting canUseChannel, the lookup is made for the channel id of the
\* patch and judged against the guildId of the call, and the $set is issued
\* only when the channel was fetched and belongs to that guild.  A failed
\* verification ends the call with the store unchanged, the stored
\* connection and its details.channel included, and with no findOneAndUpdate
\* issued; a step of such a call that changes the store sets a channel of
\* the given guild.
C4_UpdateVerifiesNewChannelFirst ==
    [][\A p \in Procs :
        (Acts(p) /\ IsUpdateChannel(req'[p]) /\ PatchesChannel(req'[p].updates)) =>
            LET r == req'[p]
                newChannel == r.updates.details.channel.id
            IN
            /\ pc[p] = "idle" =>
                /\ pc'[p] = "canUseChannel"
                /\ log'[p] = <<"canUseChannel">>
                /\ feeds' = feeds
            /\ pc[p] = "canUseChannel" =>
                /\ feeds' = feeds
                /\ lookup'[p] \in LookupOutcomes(newChannel)
                /\ pc'[p] = "set" <=>
                     (lookup'[p].ok /\ lookup'[p].guild_id = r.guildId)
                /\ pc'[p] # "set" =>
                    /\ pc'[p] = "done"
                    /\ res'[p].status = "error"
                    /\ "findOneAndUpdate" \notin Range(log'[p])
                    /\ StoredChannelConnection(feeds', r.feedId, r.connectionId)
                         = StoredChannelConnection(feeds, r.feedId, r.connectionId)
            /\ res'[p].err \in ChannelVerificationErrors => feeds' = feeds
            /\ feeds' # feeds =>
                /\ pc[p] = "set"
                /\ log[p] = <<"canUseChannel", "findOneAndUpdate">>
                /\ ChannelGuild[newChannel] = r.guildId]_vars

\* an update that tried to move a stored connection to a channel of another
\* guild and was refused
C4_Witness ==
    \E p \in Procs :
        /\ pc[p] = "done"
        /\ IsUpdateChannel(req[p])
        /\ PatchesChannel(req[p].updates)
        /\ res[p].err = DiscordChannelNotOwnedException
        /\ StoredChannelConnection(feeds, req[p].feedId, req[p].connectionId) # << >>
        /\ StoredChannelConnection(feeds, req[p].feedId, req[p].connectionId)[1]
             .details.channel.id # req[p].updates.details.channel.id

\* C6: assertDiscordChannelCanBeUsed maps the outcome of the remote lookup:
\* DiscordAPIError 404 becomes MissingDiscordChannelException, DiscordAPIError
\* 403 becomes DiscordChannelPermissionsException, a fetched channel of
\* another guild becomes DiscordChannelNotOwnedException, and any other
\* error (a DiscordAPIError with another status code, or an error of another
\* class, whatever its status code) is thrown on as the same error; a
\* fetched channel of the given guild lets the handler go on.
C6_VerifierErrorMapping ==
    \A p \in Procs :
        (pc[p] \in {"push", "set", "done"} /\ lookup[p] # NoLookup) =>
            LET out == lookup[p] IN
            IF out.ok
            THEN IF out.guild_id # req[p].guildId
                 THEN pc[p] = "done" /\ res[p] = Threw(DiscordChannelNotOwnedException)
                 ELSE /\ res[p].err \notin ChannelVerificationErrors
                      /\ "findOneAndUpdate" \in Range(log[p])
            ELSE /\ pc[p] = "done"
                 /\ res[p].status = "error"
                 /\ res[p].err =
                      CASE out.err = DiscordAPIError(NOT_FOUND) ->
                               MissingDiscordChannelException
                        [] out.err = DiscordAPIError(FORBIDDEN) ->
                               DiscordChannelPermissionsException
                        [] OTHER -> out.err

\* an error that is no DiscordAPIError but carries status code 404 went
\* through unchanged
C6_Witness ==
    \E p \in Procs :
        /\ pc[p] = "done"
        /\ lookup[p].err.class # "DiscordAPIError"
        /\ lookup[p].err.statusCode = NOT_FOUND
        /\ res[p] = Threw(lookup[p].err)

ChannelList(fs, f) == fs[f].connections.discordChannels
WebhookList(fs, f) == fs[f].connections.discordWebhooks

\* C5 as stated: the destination channel of every stored channel connection
\* belongs to the owning group (guild) of the subscription that holds it.
C5_DestinationInSubscriptionGroup ==
    \A f \in StoredFeedIds :
        \A i \in 1..Len(ChannelList(feeds, f)) :
            ChannelGuild[ChannelList(feeds, f)[i].details.channel.id] = feeds[f].guild

\* C5, amended: whenever a channel connection is added to a subscription or
\* the destination channel of a stored one changes, the step is the store
\* write of a create or update call on that subscription whose remote lookup
\* fetched the new channel, and the channel belongs to the guildId that call
\* was given.  (The service compares with the guildId argument only, never
\* with the guild of the subscription.)
C5_DestinationInGivenGroup ==
    [][\A f \in StoredFeedIds :
        \A i \in 1..Len(ChannelList(feeds', f)) :
            LET new == ChannelList(feeds', f)[i].details.channel IN
            (i > Len(ChannelList(feeds, f))
               \/ new # ChannelList(feeds, f)[i].details.channel) =>
                \E p \in Procs :
                    /\ Acts(p) /\ pc[p] \in {"push", "set"}
                    /\ req[p].feedId = f
                    /\ lookup[p] = LookupOk(new.id)
                    /\ ChannelGuild[new.id] = req[p].guildId]_vars

\* a connection was created in a subscription under the guildId of another
\* guild
C5_Witness ==
    \E p \in Procs :
        /\ pc[p] = "done" /\ res[p] = Ok
        /\ IsCreateChannel(req[p])
        /\ req[p].feedId \in StoredFeedIds
        /\ req[p].guildId # feeds[req[p].feedId].guild
        /\ ChannelGuild[ret[p][1].details.channel.id] = req[p].guildId

\* the $set step of an update whose find query matches
SetStepMatching(p) ==
    /\ Acts(p) /\ pc[p] = "set"
    /\ MatchesFindQuery(feeds, req[p].feedId, req[p].connectionId)

DetailsKeys == {"type", "channel", "embeds", "content"}

\* C7: in an update, name, filters and every key of details that the patch
\* does not carry keep their stored values.
C7_AbsentFieldsKeepValue ==
    [][\A p \in Procs :
        SetStepMatching(p) =>
            LET r == req[p]
                u == r.updates
                old == StoredChannelConnection(feeds, r.feedId, r.connectionId)[1]
                new == StoredChannelConnection(feeds', r.feedId, r.connectionId)[1]
            IN
            /\ StoredChannelConnection(feeds', r.feedId, r.connectionId) # << >>
            /\ ~Has(u, "name") => new.name = old.name
            /\ ~Has(u, "filters") => new.filters = old.filters
            /\ \A k \in DetailsKeys :
                 ~(Has(u, "details") /\ Has(u.details, k)) =>
                     new.details[k] = old.details[k]
            /\ ret'[p] = <<new>>]_vars

\* a patch of nothing but details.content was applied to a connection whose
\* name and filters had been set
C7_Witness ==
    \E p \in Procs :
        /\ pc[p] = "done" /\ res[p] = Ok
        /\ IsUpdateChannel(req[p])
        /\ DOMAIN req[p].updates = {"details"}
        /\ DOMAIN req[p].updates.details = {"content"}
        /\ ret[p][1].name = "b"
        /\ ret[p][1].filters = "F"
        /\ ret[p][1].details.content = "x"

\* C8: a successful update changes at most the channel connection with the
\* given id in the subscription with the given id: the other channel
\* connections of the subscription, its webhook connections and every other
\* subscription stay as they are, no connection is added or removed, and the
\* connection keeps its id and its place.
C8_PatchTouchesOnlyItsConnection ==
    [][\A p \in Procs :
        SetStepMatching(p) =>
            LET r == req[p]
                f == r.feedId
            IN
            /\ res'[p] = Ok
            /\ \A g \in StoredFeedIds \ {f} : feeds'[g] = feeds[g]
            /\ feeds'[f].guild = feeds[f].guild
            /\ WebhookList(feeds', f) = WebhookList(feeds, f)
            /\ Len(ChannelList(feeds', f)) = Len(ChannelList(feeds, f))
            /\ \A i \in 1..Len(ChannelList(feeds, f)) :
                /\ ChannelList(feeds', f)[i].id = ChannelList(feeds, f)[i].id
                /\ ChannelList(feeds, f)[i].id # r.connectionId =>
                     ChannelList(feeds', f)[i] = ChannelList(feeds, f)[i]]_vars

\* the second of two channel connections of a subscription was renamed and
\* the first still has its name
C8_Witness ==
    \E p \in Procs :
        /\ pc[p] = "done" /\ res[p] = Ok
        /\ IsUpdateChannel(req[p])
        /\ Len(ChannelList(feeds, req[p].feedId)) = 2
        /\ ChannelList(feeds, req[p].feedId)[2].id = req[p].connectionId
        /\ ChannelList(feeds, req[p].feedId)[2].name = "b"
        /\ ChannelList(feeds, req[p].feedId)[1].name = "a"

Count(seq, x) == Cardinality({i \in 1..Len(seq) : seq[i] = x})

\* the store write of request p finds no document: a create names a feed id
\* that matches no subscription, an update a (feed id, connection id) pair
\* that matches no channel connection
WriteMatchesNothing(p) ==
    \/ pc[p] = "push" /\ req[p].feedId \notin DOMAIN feeds
    \/ pc[p] = "set"
         /\ ~MatchesFindQuery(feeds, req[p].feedId, req[p].connectionId)

C10_WitnessCreate ==
    \E p \in Procs :
        /\ pc[p] = "done"
        /\ ~IsUpdateChannel(req[p])
        /\ res[p] = Threw(NotPersistedError)
        /\ req[p].feedId = MissingFeedId

\* the list a create pushes to
TypedList(fs, f, r) ==
    IF IsCreateChannel(r) THEN ChannelList(fs, f) ELSE WebhookList(fs, f)
OtherList(fs, f, r) ==
    IF IsCreateChannel(r) THEN WebhookList(fs, f) ELSE ChannelList(fs, f)

AllIds(fs, f) == Ids(ChannelList(fs, f)) \cup Ids(WebhookList(fs, f))

IsCreate(r) == IsCreateChannel(r) \/ IsCreateWebhook(r)

\* C9, the step: the $push of a create on an existing subscription succeeds
\* and appends one connection to the list of its kind; the connection's id
\* is carried by no connection the subscription already has, the connections
\* that were there are still there in their places, and the returned
\* connection is the appended one.
C9_PushAppendsOneFreshConnection ==
    \A p \in Procs :
        (Acts(p) /\ pc[p] = "push" /\ req[p].feedId \in DOMAIN feeds) =>
            LET r == req[p]
                f == r.feedId
                before == TypedList(feeds, f, r)
                after == TypedList(feeds', f, r)
            IN
            /\ res'[p] = Ok
            /\ Len(after) = Len(before) + 1
            /\ SubSeq(after, 1, Len(before)) = before
            /\ after[Len(after)].id = newId[p]
            /\ newId[p] \notin AllIds(feeds, f)
            /\ OtherList(feeds', f, r) = OtherList(feeds, f, r)
            /\ \A g \in StoredFeedIds \ {f} : feeds'[g] = feeds[g]
            /\ ret'[p] = <<after[Len(after)]>>

\* C9, the state: within a subscription no two connections carry the same
\* id, and the connection of every create that has returned, whether the
\* creates ran one after the other (a retry) or interleaved, is in the list.
C9_CreatedConnectionsAllPresent ==
    /\ \A f \in StoredFeedIds :
        Cardinality(AllIds(feeds, f)) =
            Len(ChannelList(feeds, f)) + Len(WebhookList(feeds, f))
    /\ \A p \in Procs :
        (pc[p] = "done" /\ res[p] = Ok /\ IsCreate(req[p])) =>
            ret[p][1].id \in Ids(TypedList(feeds, req[p].feedId, req[p]))

\* C9: every successful create adds exactly one connection with an id new
\* to the subscription and keeps the existing ones; retried and interleaved
\* creates all succeed and all their connections are in the list.
C9_CreatesNeverCollide ==
    /\ [][C9_PushAppendsOneFreshConnection]_vars
    /\ []C9_CreatedConnectionsAllPresent

\* two creates of the same connection against the same subscription
\* interleaved: the request that drew its id second wrote first, both have
\* returned, and both connections are in the list
C9_Witness ==
    /\ pc["p1"] = "done" /\ pc["p2"] = "done"
    /\ res["p1"] = Ok /\ res["p2"] = Ok
    /\ IsCreateChannel(req["p1"]) /\ IsCreateChannel(req["p2"])
    /\ req["p2"].feedId = req["p1"].feedId
    /\ newId["p1"] < newId["p2"]
    /\ Len(ChannelList(feeds, "f1")) = 2
    /\ ChannelList(feeds, "f1")[1].id = newId["p2"]
    /\ ChannelList(feeds, "f1")[2].id = newId["p1"]

(* ---------------------------------------------------------------------- *)
(* C11, C12, C20: what a create returns, repeating a patch, falsy values   *)
(* ---------------------------------------------------------------------- *)

\* C11: the step on which a createDiscordChannelConnection call succeeds
\* returns a connection whose details.channel.id is the channel id of the
\* call, whose name is the name of the call and whose details.embeds is
\* empty, and the connection read back from the subscription under the new
\* id at that moment is the returned one.
C11_CreatedConnectionRoundTrips ==
    [][\A p \in Procs :
        (Acts(p) /\ pc[p] = "push" /\ IsCreateChannel(req[p]) /\ res'[p] = Ok) =>
            /\ ret'[p] # << >>
            /\ ret'[p][1].details.channel.id = req[p].channelId
            /\ ret'[p][1].name = req[p].name
            /\ ret'[p][1].details.embeds = << >>
            /\ StoredChannelConnection(feeds', req[p].feedId, newId[p]) = ret'[p]]_vars

C11_Witness ==
    \E p \in Procs :
        /\ pc[p] = "done" /\ res[p] = Ok /\ IsCreateChannel(req[p])
        /\ req[p].name = "b" /\ req[p].channelId = "c1"
        /\ Len(ChannelList(feeds, req[p].feedId)) = 2
        /\ ChannelList(feeds, req[p].feedId)[1].name = "a"
        /\ ChannelList(feeds, req[p].feedId)[2] = ret[p][1]
        /\ ret[p][1].name = "b"
        /\ ret[p][1].details.channel.id = "c1"
        /\ ret[p][1].details.embeds = << >>

\* the two request slots hold the same successful patch of one connection
SamePatchTwice ==
    /\ pc["p1"] = "done" /\ pc["p2"] = "done"
    /\ res["p1"] = Ok /\ res["p2"] = Ok
    /\ IsUpdateChannel(req["p1"]) /\ IsUpdateChannel(req["p2"])
    /\ req["p1"].feedId = req["p2"].feedId
    /\ req["p1"].connectionId = req["p2"].connectionId
    /\ req["p1"].updates = req["p2"].updates

\* request q has patched the connection that request p is about to patch,
\* with the same patch, and the connection is still as q's call returned it
RepeatsPatchOf(p, q) ==
    /\ p # q
    /\ pc[q] = "done" /\ res[q] = Ok /\ IsUpdateChannel(req[q])
    /\ req[q].feedId = req[p].feedId
    /\ req[q].connectionId = req[p].connectionId
    /\ req[q].updates = req[p].updates
    /\ StoredChannelConnection(feeds, req[q].feedId, req[q].connectionId) = ret[q]

\* C12: patching a connection is idempotent.  The findOneAndUpdate of an
\* update, issued once more on the store it has just written, leaves the
\* store as it is and finds the connection it has just returned; and an
\* update that repeats the patch another call has just applied to the same
\* connection leaves every subscription as it is and returns the connection
\* that call returned.
C12_PatchIsIdempotent ==
    [][\A p \in Procs :
        SetStepMatching(p) =>
            LET r == req[p]
                again == SetDiscordChannel(feeds', r.feedId, r.connectionId,
                                           updateQuery(r.updates))
            IN  /\ again = feeds'
                /\ FindInUpdated(again, r.feedId, "discordChannels",
                                 r.connectionId) = ret'[p]
                /\ \A q \in Procs :
                      RepeatsPatchOf(p, q) =>
                          /\ feeds' = feeds
                          /\ res'[p] = Ok
                          /\ ret'[p] = ret[q]]_vars

C12_Witness ==
    /\ SamePatchTwice
    /\ req["p1"].updates = ("filters" :> "F")
    /\ ret["p1"] = ret["p2"]
    /\ ret["p1"][1].filters = "F"
    /\ StoredChannelConnection(feeds, req["p1"].feedId,
                               req["p1"].connectionId) = ret["p1"]

\* C20: updateDiscordChannelConnection treats a falsy top-level name or
\* filters as absent: a patch whose name is "" leaves the stored name as it
\* is, a patch whose filters is null leaves the stored filters as they are,
\* and no update takes a name or filters the connection has away from it.
C20_FalsyTopLevelIsAbsent ==
    [][\A p \in Procs :
        SetStepMatching(p) =>
            LET r == req[p]
                u == r.updates
                old == StoredChannelConnection(feeds, r.feedId, r.connectionId)[1]
                new == StoredChannelConnection(feeds', r.feedId, r.connectionId)[1]
            IN
            /\ (Has(u, "name") /\ ~Truthy(u.name)) => new.name = old.name
            /\ (Has(u, "filters") /\ ~Truthy(u.filters)) =>
                   new.filters = old.filters
            /\ old.name \notin {"", NULL, UNSET} =>
                   new.name \notin {"", NULL, UNSET}
            /\ old.filters \notin {"", NULL, UNSET} =>
                   new.filters \notin {"", NULL, UNSET}]_vars

C20_Witness ==
    \E p \in Procs :
        /\ pc[p] = "done" /\ res[p] = Ok
        /\ IsUpdateChannel(req[p])
        /\ {"name", "filters"} \subseteq DOMAIN req[p].updates
        /\ req[p].updates.name = ""
        /\ req[p].updates.filters = NULL
        /\ ret[p][1].name = "a"
        /\ ret[p][1].filters = "F"

(* ---------------------------------------------------------------------- *)
(* C19: interleaved mutations of one subscription                          *)
(* ---------------------------------------------------------------------- *)

\* the value a connection holds at a path of a $set document
ValueAt(conn, path) ==
    IF Len(path) = 1 THEN conn[path[1]] ELSE conn[path[1]][path[2]]

\* the stored connection holds every value the patch of request r set
ReflectsPatch(fs, r) ==
    LET stored == StoredChannelConnection(fs, r.feedId, r.connectionId)
        set == updateQuery(r.updates)
    IN  /\ stored # << >>
        /\ \A path \in DOMAIN set : ValueAt(stored[1], path) = set[path]

C19_WitnessCreate ==
    /\ pc["p1"] = "done" /\ pc["p2"] = "done"
    /\ res["p1"] = Ok /\ res["p2"] = Ok
    /\ IsCreateChannel(req["p1"]) /\ IsUpdateChannel(req["p2"])
    /\ req["p1"].seq < req["p2"].seq
    /\ Len(ChannelList(feeds, "f1")) = 2
    /\ ChannelList(feeds, "f1")[2].id = newId["p1"]
    /\ ret["p2"][1].id = ChannelList(feeds, "f1")[1].id
    /\ ReflectsPatch(feeds, req["p2"])

(* ---------------------------------------------------------------------- *)
(* DeliveryRecordService: operations and specification                     *)
(* ---------------------------------------------------------------------- *)

\* store(feedId, articleState): the record is constructed and persisted
store(feedId, articleState) ==
    /\ dcall = NoDeliveryCall
    /\ Len(records) < MaxStores
    /\ records' = Append(records, recordToStore(feedId, articleState, now))
    /\ dcall' = [NoDeliveryCall EXCEPT !.op = "store", !.feedId = feedId,
                                       !.status = articleState.status]
    /\ UNCHANGED now

\* countDeliveriesInPastTimeframe({feedId}, secondsInPast): one count query
countDeliveries(feedId, secondsInPast) ==
    /\ dcall = NoDeliveryCall
    /\ dcall' = [NoDeliveryCall EXCEPT
                    !.op = "countDeliveriesInPastTimeframe",
                    !.feedId = feedId,
                    !.secondsInPast = secondsInPast,
                    !.count = countDeliveriesInPastTimeframe(
                                  records, feedId, secondsInPast, now)]
    /\ UNCHANGED <<records, now>>

\* the caller has received what the call returned
deliveryCallReturns ==
    /\ dcall # NoDeliveryCall
    /\ dcall' = NoDeliveryCall
    /\ UNCHANGED <<records, now>>

\* a second passes
secondPasses ==
    /\ dcall = NoDeliveryCall
    /\ now < MaxClock
    /\ now' = now + 1
    /\ UNCHANGED <<records, dcall>>

\* a step of DeliveryRecordService leaves the state of the other services
\* as it is
OnlyDeliveryActs == UNCHANGED <<connectionVars, feedsVars, controllerVars>>

Store ==
    /\ \E f \in DeliveryFeedIds, a \in ArticleStates : store(f, a)
    /\ OnlyDeliveryActs

CountDeliveries ==
    /\ \E f \in DeliveryFeedIds, w \in SecondsInPast : countDeliveries(f, w)
    /\ OnlyDeliveryActs

DeliveryCallReturns == deliveryCallReturns /\ OnlyDeliveryActs

SecondPasses == secondPasses /\ OnlyDeliveryActs

NextDelivery ==
    \/ Store
    \/ CountDeliveries
    \/ DeliveryCallReturns
    \/ SecondPasses

SpecDelivery == Init /\ [][NextDelivery]_vars

\* the step is a count query that has just been answered
CountAnswered ==
    /\ dcall = NoDeliveryCall
    /\ dcall'.op = "countDeliveriesInPastTimeframe"

\* the records of the feed that were sent or rejected and created from
\* secondsInPast seconds before t up to t
RecentSentOrRejected(recs, feedId, secondsInPast, t) ==
    { i \in 1..Len(recs) :
        /\ recs[i].feed_id = feedId
        /\ recs[i].status = Sent \/ recs[i].status = Rejected
        /\ t - secondsInPast <= recs[i].created_at
        /\ recs[i].created_at <= t }

\* C13: the count a query returns is the number of stored records of the
\* given feed whose status is Sent or Rejected and whose creation time lies
\* within [now - secondsInPast, now]; Failed records, records of other
\* feeds and records created outside the interval are not counted.
C13_CountIsRecentSentOrRejected ==
    [][CountAnswered =>
          dcall'.count =
              Cardinality(RecentSentOrRejected(records, dcall'.feedId,
                                               dcall'.secondsInPast, now))]_vars

C13_Witness ==
    /\ dcall.op = "countDeliveriesInPastTimeframe"
    /\ dcall.feedId = "f1"
    /\ dcall.secondsInPast = 1
    /\ dcall.count = 1
    /\ Len(records) = 3
    /\ \E i, j, k \in 1..3 :
          /\ records[i].feed_id = "f1" /\ records[i].status = Sent
          /\ records[i].created_at < now - 1
          /\ records[j].feed_id = "f1" /\ records[j].status = Failed
          /\ records[j].created_at >= now - 1
          /\ records[k].feed_id = "f1" /\ records[k].status = Rejected
          /\ records[k].created_at >= now - 1

\* a query of the other feed's records counts none of the first feed's
C13_WitnessOtherFeed ==
    /\ dcall.op = "countDeliveriesInPastTimeframe"
    /\ dcall.feedId = "f2"
    /\ dcall.count = 1
    /\ Len(records) = 3
    /\ Cardinality({i \in 1..3 : records[i].feed_id = "f1"
                                   /\ records[i].status = Sent}) = 2

\* C14: delivery records are append-only.  Every step keeps the stored
\* records as they are, in place; the only step that adds to them is a store
\* call, which appends exactly one record with the feed id and status it was
\* given; a count query writes nothing; and a stored record has an error
\* code or an internal message only if its status is Failed or Rejected.
C14_RecordsAppendOnly ==
    /\ [][/\ Len(records') >= Len(records)
          /\ SubSeq(records', 1, Len(records)) = records
          /\ (dcall = NoDeliveryCall /\ dcall'.op = "store") <=>
                 Len(records') = Len(records) + 1
          /\ Len(records') > Len(records) =>
                 /\ records'[Len(records')].feed_id = dcall'.feedId
                 /\ records'[Len(records')].status = dcall'.status
          /\ CountAnswered => records' = records]_vars
    /\ [](\A i \in 1..Len(records) :
            (records[i].error_code # UNSET \/ records[i].internal_message # UNSET)
                => records[i].status \in {Failed, Rejected})

C14_Witness ==
    /\ Len(records) = 3
    /\ records[1].status = Sent /\ records[1].error_code = UNSET
    /\ records[1].internal_message = UNSET
    /\ records[2].status = Rejected /\ records[2].error_code = "E2"
    /\ records[3].status = OtherStatus /\ records[3].error_code = UNSET
    /\ dcall.op = "countDeliveriesInPastTimeframe"
    /\ dcall.count = 1

(* ---------------------------------------------------------------------- *)
(* FeedsService: operations and specification                              *)
(* ---------------------------------------------------------------------- *)

\* failRecordModel.create({_id: url, reason, failedAt}): the feed of the url
\* is recorded as failing since `age` hours ago
createFailRecord(url, reason, age) ==
    /\ fcall = NoFeedsCall
    /\ url \notin DOMAIN failRecords
    /\ failRecords' = (url :> [reason |-> reason, failedAt |-> clock - age])
                          @@ failRecords
    /\ UNCHANGED <<feedDocs, clock, fcall>>

\* an hour passes
hourPasses ==
    /\ fcall = NoFeedsCall
    /\ clock < StartHour + MaxHours
    /\ clock' = clock + 1
    /\ UNCHANGED <<feedDocs, failRecords, fcall>>

\* findFeeds({_id: id}, ...): the feed, if there is one, with its status
findFeeds(id) ==
    /\ fcall = NoFeedsCall
    /\ IF id \in DOMAIN feedDocs
       THEN \E status \in PossibleStatuses(failRecords, feedDocs[id].url, clock) :
               fcall' = [NoFeedsCall EXCEPT
                            !.op = "findFeeds", !.id = id,
                            !.out = <<DetailedFeed(id, feedDocs[id],
                                                   failRecords, status)>>]
       ELSE fcall' = [NoFeedsCall EXCEPT !.op = "findFeeds", !.id = id]
    /\ UNCHANGED <<feedDocs, failRecords, clock>>

\* refresh(id): throws when there is no such feed; otherwise deletes the
\* fail record of the feed's url and returns the feed as findFeeds then
\* reports it
refresh(id) ==
    /\ fcall = NoFeedsCall
    /\ IF id \in DOMAIN feedDocs
       THEN LET url == feedDocs[id].url
                remaining == DeleteFailRecord(failRecords, url)
            IN  /\ failRecords' = remaining
                /\ \E status \in PossibleStatuses(remaining, url, clock) :
                      fcall' = [NoFeedsCall EXCEPT
                                   !.op = "refresh", !.id = id,
                                   !.deleted = Cardinality(DOMAIN failRecords)
                                                 - Cardinality(DOMAIN remaining),
                                   !.out = <<DetailedFeed(id, feedDocs[id],
                                                          remaining, status)>>]
       ELSE /\ fcall' = [NoFeedsCall EXCEPT !.op = "refresh", !.id = id,
                                            !.threw = TRUE]
            /\ UNCHANGED failRecords
    /\ UNCHANGED <<feedDocs, clock>>

\* updateOne(id, input): resolves to undefined when there is no such feed;
\* otherwise writes the patch and returns the feed as findFeeds then reports
\* it
updateOne(id, input) ==
    /\ fcall = NoFeedsCall
    /\ IF id \in DOMAIN feedDocs
       THEN LET updated == ApplyUpdateFeedInput(feedDocs[id], input)
            IN  /\ feedDocs' = [feedDocs EXCEPT ![id] = updated]
                /\ \E status \in PossibleStatuses(failRecords, updated.url, clock) :
                      fcall' = [NoFeedsCall EXCEPT
                                   !.op = "updateOne", !.id = id, !.input = input,
                                   !.out = <<DetailedFeed(id, updated,
                                                          failRecords, status)>>]
       ELSE /\ fcall' = [NoFeedsCall EXCEPT !.op = "updateOne", !.id = id,
                                            !.input = input]
            /\ UNCHANGED feedDocs
    /\ UNCHANGED <<failRecords, clock>>

\* the caller has received what the call returned
feedsCallReturns ==
    /\ fcall # NoFeedsCall
    /\ fcall' = NoFeedsCall
    /\ UNCHANGED <<feedDocs, failRecords, clock>>

\* a step of FeedsService leaves the state of the other services as it is
OnlyFeedsActs == UNCHANGED <<connectionVars, deliveryVars, controllerVars>>

CreateFailRecord ==
    /\ \E u \in Urls, r \in FailReasons, age \in AgesAtInsert :
          createFailRecord(u, r, age)
    /\ OnlyFeedsActs

HourPasses == hourPasses /\ OnlyFeedsActs

FindFeeds ==
    /\ \E id \in FeedDocIdInputs : findFeeds(id)
    /\ OnlyFeedsActs

Refresh ==
    /\ \E id \in FeedDocIdInputs : refresh(id)
    /\ OnlyFeedsActs

UpdateOne ==
    /\ \E id \in FeedDocIdInputs, input \in UpdateFeedInputs : updateOne(id, input)
    /\ OnlyFeedsActs

FeedsCallReturns == feedsCallReturns /\ OnlyFeedsActs

NextFeeds ==
    \/ CreateFailRecord
    \/ HourPasses
    \/ FindFeeds
    \/ Refresh
    \/ UpdateOne
    \/ FeedsCallReturns

SpecFeeds == Init /\ [][NextFeeds]_vars

(* ---------------------------------------------------------------------- *)
(* C15 - C18: the derived status, updateOne, refresh                       *)
(* ---------------------------------------------------------------------- *)

\* the feed a FeedsService call has just returned, if it returned one; the
\* collections are as the call left them until the caller has received it
Returned(op) == fcall.op = op /\ fcall.out # << >>

HasFailRecord(url) == url \in DOMAIN failRecords
FailRecordAge(url) == clock - failRecords[url].failedAt

\* C15 as stated: a returned feed has status failed exactly when a fail
\* record exists for its url whose age is below the 18-hour threshold.
C15_FailedWhileYoungerThanThreshold ==
    \A op \in {"findFeeds", "updateOne"} :
        Returned(op) =>
            LET feed == fcall.out[1]
            IN  feed.status = FeedStatusFailed <=>
                    /\ HasFailRecord(feed.url)
                    /\ FailRecordAge(feed.url) < FAILED_CUTOFF_HOURS

\* C15, amended: a returned feed has status failed when a fail record exists
\* for its url whose age is above the 18-hour threshold, and ok when no fail
\* record exists for the url or the record's age is below the threshold; a
\* feed is never failed without a fail record of at least threshold age.
C15_FailedOnceOlderThanThreshold ==
    \A op \in {"findFeeds", "updateOne"} :
        Returned(op) =>
            LET feed == fcall.out[1]
            IN  /\ feed.status \in {FeedStatusOk, FeedStatusFailed}
                /\ (HasFailRecord(feed.url)
                      /\ FailRecordAge(feed.url) > FAILED_CUTOFF_HOURS)
                       => feed.status = FeedStatusFailed
                /\ (~HasFailRecord(feed.url)
                      \/ FailRecordAge(feed.url) < FAILED_CUTOFF_HOURS)
                       => feed.status = FeedStatusOk

\* a fail record of 2 hours ago: the feed is reported ok
C15_Witness ==
    /\ Returned("findFeeds")
    /\ HasFailRecord(fcall.out[1].url)
    /\ FailRecordAge(fcall.out[1].url) = 2
    /\ fcall.out[1].status = FeedStatusOk

\* a fail record of 19 hours ago: the feed is reported failed
C15_WitnessOld ==
    /\ Returned("updateOne")
    /\ HasFailRecord(fcall.out[1].url)
    /\ FailRecordAge(fcall.out[1].url) = FAILED_CUTOFF_HOURS + 1
    /\ fcall.out[1].status = FeedStatusFailed

\* C16: findFeeds reports a feed whose fail record has a failedAt within the
\* past 18 hours as ok; it reports a feed whose fail record is older than
\* that as failed, with the reason of the record as failReason; and it
\* reports a feed without a fail record as ok.
C16_FindFeedsStatus ==
    Returned("findFeeds") =>
        LET feed == fcall.out[1]
            url == feedDocs[fcall.id].url
        IN  /\ feed.id = fcall.id
            /\ ~HasFailRecord(url) => feed.status = FeedStatusOk
            /\ (HasFailRecord(url)
                  /\ failRecords[url].failedAt > clock - FAILED_CUTOFF_HOURS)
                   => feed.status = FeedStatusOk
            /\ (HasFailRecord(url)
                  /\ failRecords[url].failedAt < clock - FAILED_CUTOFF_HOURS)
                   => /\ feed.status = FeedStatusFailed
                      /\ feed.failReason = failRecords[url].reason
            /\ feed.status = FeedStatusFailed =>
                   HasFailRecord(url) /\ feed.failReason = failRecords[url].reason

\* one feed is reported failed with the reason of its old record while the
\* other url has a record from within the past 18 hours
C16_Witness ==
    /\ Returned("findFeeds")
    /\ fcall.id = "d2"
    /\ fcall.out[1].status = FeedStatusFailed
    /\ fcall.out[1].failReason = "r2"
    /\ HasFailRecord("u2") /\ failRecords["u2"].reason = "r2"
    /\ FailRecordAge("u2") > FAILED_CUTOFF_HOURS + 1
    /\ HasFailRecord("u1") /\ failRecords["u1"].reason = "r1"
    /\ FailRecordAge("u1") < FAILED_CUTOFF_HOURS

\* the step is a FeedsService call of the given name being answered
Answered(op) == fcall = NoFeedsCall /\ fcall'.op = op

\* C17: updateOne on a feed that exists sets the stored text to the text of
\* the patch when that is defined and leaves it when it is undefined or
\* absent; a webhook with a non-empty id in the patch makes the stored
\* webhook one of that id, a webhook with an empty id removes the stored
\* webhook, no webhook in the patch leaves the stored one; nothing else
\* changes, and the updated feed is returned.  When no feed has the id,
\* updateOne returns undefined and changes nothing.
C17_UpdateOneMerges ==
    [][Answered("updateOne") =>
        LET id == fcall'.id
            input == fcall'.input
        IN  /\ ~fcall'.threw
            /\ failRecords' = failRecords
            /\ DOMAIN feedDocs' = DOMAIN feedDocs
            /\ \A d \in DOMAIN feedDocs \ {id} : feedDocs'[d] = feedDocs[d]
            /\ id \notin DOMAIN feedDocs =>
                   fcall'.out = << >> /\ feedDocs' = feedDocs
            /\ id \in DOMAIN feedDocs =>
                   LET old == feedDocs[id]
                       new == feedDocs'[id]
                   IN  /\ new.url = old.url
                       /\ new.text = IF Has(input, "text") /\ input.text # UNDEFINED
                                     THEN input.text ELSE old.text
                       /\ ~Has(input, "webhook") => new.webhook = old.webhook
                       /\ (Has(input, "webhook") /\ input.webhook.id = "") =>
                              new.webhook = NoWebhook
                       /\ (Has(input, "webhook") /\ input.webhook.id # "") =>
                              /\ Len(new.webhook) = 1
                              /\ new.webhook[1].id = input.webhook.id
                       /\ fcall'.out # << >>
                       /\ fcall'.out[1].id = id
                       /\ fcall'.out[1].text = new.text
                       /\ fcall'.out[1].webhook = new.webhook]_vars

\* a patch with undefined text and an empty webhook id has removed the
\* webhook of a feed whose text an earlier patch had set
C17_Witness ==
    /\ Returned("updateOne")
    /\ fcall.id = "d1"
    /\ fcall.input = ("text" :> UNDEFINED @@ "webhook" :> [id |-> ""])
    /\ feedDocs["d1"].text = "my-new-text"
    /\ feedDocs["d1"].webhook = NoWebhook
    /\ feedDocs["d2"].webhook = Webhook("my-new-webhook-id")
    /\ feedDocs["d2"].text = "old-text"

\* no feed has the id: undefined is returned
C17_WitnessMissing ==
    /\ fcall.op = "updateOne"
    /\ fcall.id = MissingFeedDocId
    /\ fcall.out = << >>
    /\ fcall.input = ("text" :> "my-new-text")
    /\ feedDocs = InitialFeedDocs

\* C18: refresh of a feed that exists succeeds whether or not its url has a
\* fail record and whatever the age of the record: afterwards the url has no
\* fail record, the fail records of other urls and the feeds are as before,
\* and the returned feed has status ok.  refresh of an id no feed has throws
\* and deletes no fail record.
C18_RefreshClearsFailRecord ==
    [][Answered("refresh") =>
        LET id == fcall'.id
        IN  /\ feedDocs' = feedDocs
            /\ id \in DOMAIN feedDocs =>
                   LET url == feedDocs[id].url
                   IN  /\ ~fcall'.threw
                       /\ url \notin DOMAIN failRecords'
                       /\ DOMAIN failRecords' = DOMAIN failRecords \ {url}
                       /\ \A u \in DOMAIN failRecords' :
                              failRecords'[u] = failRecords[u]
                       /\ fcall'.out # << >>
                       /\ fcall'.out[1].id = id
                       /\ fcall'.out[1].status = FeedStatusOk
            /\ id \notin DOMAIN feedDocs =>
                   /\ fcall'.threw
                   /\ fcall'.out = << >>
                   /\ failRecords' = failRecords]_vars

\* refresh has deleted the fail record of one url and returned the feed as
\* ok, while the old fail record of the other url is still there
C18_Witness ==
    /\ Returned("refresh")
    /\ fcall.id = "d1"
    /\ fcall.deleted = 1
    /\ fcall.out[1].status = FeedStatusOk
    /\ ~HasFailRecord("u1")
    /\ HasFailRecord("u2")
    /\ FailRecordAge("u2") > FAILED_CUTOFF_HOURS

\* refresh of an id no feed has: it threw, the fail records are all there
C18_WitnessMissing ==
    /\ fcall.op = "refresh"
    /\ fcall.id = MissingFeedDocId
    /\ fcall.threw
    /\ HasFailRecord("u1") /\ HasFailRecord("u2")

(* ---------------------------------------------------------------------- *)
(* FeedsController.updateFeed                                              *)
(* ---------------------------------------------------------------------- *)

\* the bodies of PATCH :feedId requests: text and webhookId, each absent
\* (undefined) or a string; w0 is the id of no webhook
UpdateFeedTexts == {UNDEFINED, "my-new-text"}
UpdateFeedWebhookIds == {UNDEFINED, "", "w0", "w1"}

\* if (updateFeedInput.webhookId): undefined and "" are falsy
TruthyWebhookId(webhookId) == Truthy(webhookId) /\ webhookId # UNDEFINED

SERVER_WEBHOOKS_DISABLED == "This server does not have webhooks enabled"
WEBHOOK_NOT_FOUND == "Webhook not found"

\* the documents updateOne may leave when called with {text, webhook: {id}}.
\* With a string id it writes as ApplyUpdateFeedInput says.  What it does
\* with an undefined id is fixed by neither its tests nor the spec: the
\* webhook is left alone or removed.
UpdateOneOutcomes(doc, text, webhookId) ==
    IF webhookId = UNDEFINED
    THEN { ApplyUpdateFeedInput(doc, "text" :> text),
           ApplyUpdateFeedInput(doc, "text" :> text @@ "webhook" :> [id |-> ""]) }
    ELSE { ApplyUpdateFeedInput(doc, "text" :> text
                                       @@ "webhook" :> [id |-> webhookId]) }

\* mutation: the handler goes straight to updateOne whatever the webhookId
updateFeedUnchecked(feedId, text, webhookId) ==
    /\ ureq.pc = "idle"
    /\ ureq' = [NoUpdateFeed EXCEPT
                   !.pc = "updateOne",
                   !.feedId = feedId, !.text = text, !.webhookId = webhookId,
                   !.before = <<feedDocs>>, !.res = "pending"]
    /\ UNCHANGED feedDocs

\* updateFeed is entered with the feed the pipe resolved and the body: with
\* a truthy webhookId it awaits serverCanUseWebhooks, otherwise updateOne
updateFeed(feedId, text, webhookId) ==
    /\ ureq.pc = "idle"
    /\ ureq' = [NoUpdateFeed EXCEPT
                   !.pc = IF TruthyWebhookId(webhookId)
                          THEN "serverCanUseWebhooks" ELSE "updateOne",
                   !.feedId = feedId, !.text = text, !.webhookId = webhookId,
                   !.before = <<feedDocs>>, !.res = "pending"]
    /\ UNCHANGED feedDocs

\* supportersService.serverCanUseWebhooks(feed.guild) answers
serverCanUseWebhooksReturns(answer) ==
    /\ ureq.pc = "serverCanUseWebhooks"
    /\ ureq' = IF answer
               THEN [ureq EXCEPT !.pc = "getWebhook",
                                 !.log = Append(@, <<"serverCanUseWebhooks", TRUE>>)]
               ELSE [ureq EXCEPT !.pc = "done", !.res = "BadRequestException",
                                 !.message = SERVER_WEBHOOKS_DISABLED,
                                 !.log = Append(@, <<"serverCanUseWebhooks", FALSE>>)]
    /\ UNCHANGED feedDocs

\* webhooksService.getWebhook(updateFeedInput.webhookId) answers
foundWebhookReturns ==
    /\ ureq.pc = "getWebhook"
    /\ LET foundWebhook == getWebhook(ureq.webhookId)
       IN  ureq' = IF foundWebhook = << >>
                   THEN [ureq EXCEPT !.pc = "done", !.res = "BadRequestException",
                                     !.message = WEBHOOK_NOT_FOUND,
                                     !.log = Append(@, <<"getWebhook", FALSE>>)]
                   ELSE [ureq EXCEPT !.pc = "updateOne",
                                     !.log = Append(@, <<"getWebhook", TRUE>>)]
    /\ UNCHANGED feedDocs

\* feedsService.updateOne(feed._id, {text, webhook: {id}}) answers and the
\* handler returns the updated feed
updateOneReturns ==
    /\ ureq.pc = "updateOne"
    /\ \E updated \in UpdateOneOutcomes(feedDocs[ureq.feedId], ureq.text,
                                        ureq.webhookId) :
          feedDocs' = [feedDocs EXCEPT ![ureq.feedId] = updated]
    /\ ureq' = [ureq EXCEPT !.pc = "done", !.res = "ok",
                            !.log = Append(@, <<"updateOne", TRUE>>)]

\* the client has received the response
updateFeedResponds ==
    /\ ureq.pc = "done"
    /\ ureq' = NoUpdateFeed
    /\ UNCHANGED feedDocs

\* a step of the controller touches the feed documents and nothing else of
\* the services
OnlyControllerActs ==
    UNCHANGED <<connectionVars, deliveryVars, failRecords, clock, fcall>>

UpdateFeed ==
    /\ \E d \in FeedDocIds, t \in UpdateFeedTexts, w \in UpdateFeedWebhookIds :
          updateFeed(d, t, w)
    /\ OnlyControllerActs

ServerCanUseWebhooksReturns ==
    /\ \E answer \in BOOLEAN : serverCanUseWebhooksReturns(answer)
    /\ OnlyControllerActs

FoundWebhookReturns == foundWebhookReturns /\ OnlyControllerActs

UpdateOneReturns == updateOneReturns /\ OnlyControllerActs

UpdateFeedResponds == updateFeedResponds /\ OnlyControllerActs

NextController ==
    \/ UpdateFeed
    \/ ServerCanUseWebhooksReturns
    \/ FoundWebhookReturns
    \/ UpdateOneReturns
    \/ UpdateFeedResponds

SpecController == Init /\ [][NextController]_vars

CheckedThenUpdated ==
    << <<"serverCanUseWebhooks", TRUE>>, <<"getWebhook", TRUE>>,
       <<"updateOne", TRUE>> >>

UpdatedUnchecked == << <<"updateOne", TRUE>> >>

UpdateOneWasCalled ==
    \E i \in 1..Len(ureq.log) : ureq.log[i][1] = "updateOne"

\* C21: in updateFeed, with a non-empty webhookId updateOne is called only
\* after serverCanUseWebhooks answered true and getWebhook found the
\* webhook, in that order; a request is rejected exactly when one of the two
\* checks failed, with a BadRequestException carrying that check's message,
\* without updateOne having been called and with the feed documents as they
\* were when the request came in; with an empty or absent webhookId no
\* check is made, the request is never rejected and it ends with updateOne
\* called.
C21_UpdateOneOnlyAfterChecks ==
    /\ UpdateOneWasCalled =>
          IF TruthyWebhookId(ureq.webhookId)
          THEN /\ ureq.log = CheckedThenUpdated
               /\ getWebhook(ureq.webhookId) # << >>
          ELSE ureq.log = UpdatedUnchecked
    /\ ureq.res = "BadRequestException" =>
          /\ TruthyWebhookId(ureq.webhookId)
          /\ ~UpdateOneWasCalled
          /\ feedDocs = ureq.before[1]
          /\ \/ /\ ureq.log = << <<"serverCanUseWebhooks", FALSE>> >>
                /\ ureq.message = SERVER_WEBHOOKS_DISABLED
             \/ /\ ureq.log = << <<"serverCanUseWebhooks", TRUE>>,
                                 <<"getWebhook", FALSE>> >>
                /\ ureq.message = WEBHOOK_NOT_FOUND
                /\ getWebhook(ureq.webhookId) = << >>
    /\ ureq.pc # "idle" /\ ~TruthyWebhookId(ureq.webhookId) =>
          /\ ureq.res # "BadRequestException"
          /\ ureq.pc = "updateOne" \/ ureq.log = UpdatedUnchecked
    /\ ureq.pc = "done" =>
          \/ ureq.res = "BadRequestException"
          \/ ureq.res = "ok" /\ UpdateOneWasCalled

\* a request with a webhook id passed both checks and the feed now carries
\* that webhook
C21_Witness ==
    /\ ureq.pc = "done"
    /\ ureq.res = "ok"
    /\ ureq.webhookId = "w1"
    /\ ureq.log = CheckedThenUpdated
    /\ feedDocs[ureq.feedId].webhook = Webhook("w1")
    /\ feedDocs # ureq.before[1]

\* a request was rejected because its webhook was not found
C21_WitnessNotFound ==
    /\ ureq.pc = "done"
    /\ ureq.res = "BadRequestException"
    /\ ureq.message = WEBHOOK_NOT_FOUND
    /\ ureq.webhookId = "w0"

\* a request was rejected because the server may not use webhooks
C21_WitnessDisabled ==
    /\ ureq.pc = "done"
    /\ ureq.res = "BadRequestException"
    /\ ureq.message = SERVER_WEBHOOKS_DISABLED
    /\ ureq.webhookId = "w1"

\* a request with an empty webhookId updated the feed unchecked
C21_WitnessEmpty ==
    /\ ureq.pc = "done"
    /\ ureq.res = "ok"
    /\ ureq.webhookId = ""
    /\ ureq.text = "my-new-text"
    /\ ureq.log = UpdatedUnchecked
    /\ feedDocs[ureq.feedId].text = "my-new-text"

====
